---------------------------- MODULE Spec2Model ----------------------------
(***************************************************************************)
(* Friend-request state machine of social_network/views.py.                *)
(*                                                                         *)
(* The store holds the FriendRequest, Friendship, BlockedUser and          *)
(* UserActivity tables of models.py; the cache holds the cooldown markers  *)
(* and the per-sender request counters.  Every view is written as a        *)
(* sequence of statements, one per store or cache access, each a function  *)
(* from (world, call) to (world, call).  Spec runs a call's statements to  *)
(* completion in one action (one call at a time); ConcSpec runs them one   *)
(* statement per action, so that calls interleave exactly where the code   *)
(* does I/O.  The statements inside transaction.atomic() are one           *)
(* statement.                                                              *)
(***************************************************************************)
EXTENDS Integers, Sequences, FiniteSets, TLC

\* ------------------------------------------------------------------ bounds
NUsers == 2        \* registered users 1..NUsers
MaxId == 2         \* FriendRequest primary keys handed out in one behaviour
MaxRateId == 3     \* the same, in RateSpec
NProcs == 2        \* calls that may be in flight together (ConcSpec)
MaxCalls == 3      \* calls started in one behaviour of ConcSpec
TickShort == 30    \* seconds the clock advances in a short tick
MaxSecs == 60      \* short ticks stop this many seconds into a day
MaxDays == 1       \* whole-day ticks
MaxRaceId == 3     \* FriendRequest primary keys handed out in RaceSpec
MaxListId == 1     \* the same, in ListSpec
MaxLists == 1      \* friend lists that may be in flight together (ListSpec)
TickList == 200    \* seconds the clock advances in a tick of ListSpec
MaxListSecs == 400 \* the clock of ListSpec stops here

\* ------------------------------------------------------- program constants
RateLimit == 3           \* request_count >= 3
RateTTL == 60            \* cache.set(cache_key, request_count + 1, 60)
CooldownTTL == 86400     \* cache.set(cooldown key, True, timeout=86400)
LookbackHours == 24      \* timezone.timedelta(hours=24)
SecondsPerHour == 3600
FriendsTTL == 300        \* redis_client.set(cache_key, friends_json, ex=300)

Users == 1..NUsers
Procs == 1..NProcs

\* STATUS_CHOICES of FriendRequest
STATUS_CHOICES == {"PENDING", "ACCEPTED", "REJECTED"}
\* a request body either carries a valid status or none (validated_data.get('status', ''))
NoStatus == ""
StatusPayload == STATUS_CHOICES \cup {NoStatus}
\* a respond body either names a receiver (the field is writable) or not
NoReceiver == 0
ReceiverPayload == Users \cup {NoReceiver}

VARIABLES
    friendRequest,  \* FriendRequest rows: [id, sender, receiver, status, updated_at]
    nextId,         \* next primary key of FriendRequest
    friendship,     \* Friendship rows <<user, friend>>
    blockedUser,    \* BlockedUser rows <<user, blocked_user>>
    userActivity,   \* UserActivity rows in insertion order: <<user, activity, timestamp>>
    cooldown,       \* cache: cooldown_friend_request_<s>_<r> -> expiry time (0: no key)
    requestCount,   \* cache: friend_request_count_<s> -> [count, expiry] (expiry 0: no key)
    friendsList,    \* redis: friends_list_<user> -> [rows, expiry] (expiry 0: no key),
                    \* with the times the rows were queried and the key written
    friendsAt,      \* history: per user, the Friendship rows of the user each time
                    \* they changed, <<[t, rows], ...>> (kept in ListSpec)
    now,            \* the clock, in seconds
    calls,          \* calls started so far (counted in ConcSpec)
    proc            \* ConcSpec: the calls in flight, one record per process slot

vars == <<friendRequest, nextId, friendship, blockedUser, userActivity,
          cooldown, requestCount, friendsList, friendsAt, now, calls, proc>>

\* the store, the cache and the clock as one value
World ==
    [friendRequest |-> friendRequest, nextId |-> nextId, friendship |-> friendship,
     blockedUser |-> blockedUser, userActivity |-> userActivity,
     cooldown |-> cooldown, requestCount |-> requestCount,
     friendsList |-> friendsList, now |-> now]

Install(w) ==
    /\ friendRequest' = w.friendRequest
    /\ nextId' = w.nextId
    /\ friendship' = w.friendship
    /\ blockedUser' = w.blockedUser
    /\ userActivity' = w.userActivity
    /\ cooldown' = w.cooldown
    /\ requestCount' = w.requestCount
    /\ friendsList' = w.friendsList
    /\ now' = w.now

\* ----------------------------------------------------------------- helpers
NoRow == [id |-> 0, sender |-> 0, receiver |-> 0, status |-> NoStatus, updated_at |-> 0]
NoResponse == [http |-> 0, detail |-> ""]

\* a call: where it stands (pc), its inputs (op, user, target, status, pk), its
\* local variables (instance, request_count, friends), whether it wrote its row
\* (saved), and its response; for a friend list, also when its rows were
\* queried and when the cache key they came from was written
Idle == [pc |-> "idle", op |-> "", user |-> 0, target |-> 0, status |-> NoStatus,
         pk |-> 0, instance |-> NoRow, request_count |-> 0, saved |-> FALSE,
         friends |-> {}, queried_at |-> 0, written_at |-> 0,
         response |-> NoResponse]

Result(w, c) == [w |-> w, c |-> c]

\* the call returns: its locals are dropped, its inputs and response kept
Finish(w, c, http, detail) ==
    Result(w, [c EXCEPT !.pc = "done", !.instance = NoRow, !.request_count = 0,
                        !.response = [http |-> http, detail |-> detail]])

Goto(w, c, pc) == Result(w, [c EXCEPT !.pc = pc])

\* QuerySet.first(): the matching row with the lowest primary key, or None
First(rows) ==
    IF rows = {} THEN NoRow
    ELSE CHOOSE r \in rows : \A q \in rows : r.id <= q.id

\* Q(sender=a, receiver=b) | Q(sender=b, receiver=a)
Between(rows, a, b) ==
    {r \in rows : \/ r.sender = a /\ r.receiver = b
                  \/ r.sender = b /\ r.receiver = a}

\* unique_together = ('sender', 'receiver'): a row (s, r) other than `id` exists
Clashes(rows, id, s, r) ==
    \E q \in rows : q.id # id /\ q.sender = s /\ q.receiver = r

\* a cache key is readable until its expiry
Live(w, expiry) == w.now < expiry

\* cache.get(cache_key, 0)
CacheGetCount(w, s) ==
    IF Live(w, w.requestCount[s].expiry) THEN w.requestCount[s].count ELSE 0

\* cache.get(cooldown_key)
CacheGetCooldown(w, s, r) == Live(w, w.cooldown[<<s, r>>])

\* no key in redis
NoEntry == [rows |-> {}, expiry |-> 0, queried_at |-> 0, written_at |-> 0]

Init ==
    /\ friendRequest = {}
    /\ nextId = 1
    /\ friendship = {}
    /\ blockedUser = {}
    /\ userActivity = <<>>
    /\ cooldown = [k \in Users \X Users |-> 0]
    /\ requestCount = [u \in Users |-> [count |-> 0, expiry |-> 0]]
    /\ friendsList = [u \in Users |-> NoEntry]
    /\ friendsAt = [u \in Users |-> <<[t |-> 0, rows |-> {}]>>]
    /\ now = 0
    /\ calls = 0
    /\ proc = [p \in Procs |-> Idle]

\* ------------------------------------------------------------------- clock
\* keys whose expiry has passed are gone from the cache
Evict(t) ==
    /\ cooldown' = [k \in Users \X Users |-> IF t < cooldown[k] THEN cooldown[k] ELSE 0]
    /\ requestCount' = [u \in Users |->
                          IF t < requestCount[u].expiry THEN requestCount[u]
                          ELSE [count |-> 0, expiry |-> 0]]

Advance(d) ==
    /\ now' = now + d
    /\ Evict(now + d)
    /\ UNCHANGED <<friendRequest, nextId, friendship, blockedUser, userActivity,
                   friendsList, friendsAt, calls, proc>>

TickSeconds ==
    /\ (now % CooldownTTL) + TickShort <= MaxSecs
    /\ Advance(TickShort)

TickDay ==
    /\ now \div CooldownTTL < MaxDays
    /\ Advance(CooldownTTL)

\* ------------------------------------------- SendFriendRequestView (POST)
\* CreateAPIView.create: the serializer accepts `receiver` (required, an existing
\* user) and `status` (writable, optional); `sender` is read-only
SendCall(sender, receiver, st) ==
    [Idle EXCEPT !.pc = "s_existing", !.op = "send", !.user = sender,
                 !.target = receiver, !.status = st]

\* views.py 140-151: perform_create returns a Response, which create() discards:
\* nothing is saved and the caller is answered 201 with the serializer's data
SendExisting(w, c) ==
    LET existing_request == First(Between(w.friendRequest, c.user, c.target))
    IN  IF existing_request # NoRow
        THEN Finish(w, c, 201, existing_request.status)
        ELSE Goto(w, c, "s_cooldown")

SendCooldown_BlockedFirst(w, c) ==
    IF <<c.target, c.user>> \in w.blockedUser
    THEN Finish(w, c, 500, "blocked")
    ELSE IF CacheGetCooldown(w, c.user, c.target)
    THEN Finish(w, c, 500, "cooldown")
    ELSE Goto(w, c, "s_blocked")

\* views.py 154-156: django.core.exceptions.ValidationError is not an APIException,
\* so raising it ends the call with a server error
SendCooldown(w, c) ==
    IF CacheGetCooldown(w, c.user, c.target)
    THEN Finish(w, c, 500, "cooldown")
    ELSE Goto(w, c, "s_blocked")

\* views.py 159: BlockedUser.objects.filter(user=receiver, blocked_user=sender)
ReceiverBlockedSender(blocked, sender, receiver) == <<receiver, sender>> \in blocked

\* views.py 159-160
SendBlocked(w, c) ==
    IF ReceiverBlockedSender(w.blockedUser, c.user, c.target)
    THEN Finish(w, c, 500, "blocked")
    ELSE Goto(w, c, "s_rate")

\* views.py 164
OverRate_Lenient(request_count) == request_count > RateLimit

OverRate(request_count) == request_count >= RateLimit

\* a refusal that counts against the sender
SendRate_Counting(w, c) ==
    LET request_count == CacheGetCount(w, c.user)
    IN  IF OverRate(request_count)
        THEN Finish([w EXCEPT !.requestCount[c.user] =
                                  [count |-> request_count + 1, expiry |-> w.now + RateTTL]],
                    c, 500, "rate")
        ELSE Result(w, [c EXCEPT !.pc = "s_lookback", !.request_count = request_count])

\* views.py 162-165
SendRate(w, c) ==
    LET request_count == CacheGetCount(w, c.user)
    IN  IF OverRate(request_count)
        THEN Finish(w, c, 500, "rate")
        ELSE Result(w, [c EXCEPT !.pc = "s_lookback", !.request_count = request_count])

\* views.py 167-172
LastRejected(w, sender, receiver) ==
    First({r \in w.friendRequest :
              /\ r.sender = sender /\ r.receiver = receiver /\ r.status = "REJECTED"
              /\ r.updated_at >= w.now - LookbackHours * SecondsPerHour})

\* views.py 167-174
SendLookback(w, c) ==
    IF LastRejected(w, c.user, c.target) # NoRow
    THEN Finish(w, c, 500, "lookback")
    ELSE Goto(w, c, "s_create")

\* serializer.save(sender=sender): the row takes the validated status, or the
\* model's default when the body has none
SavedStatus(st) == IF st = NoStatus THEN "PENDING" ELSE st

\* cache.set(cache_key, request_count + 1, 60)
CountEntry(t, request_count) == [count |-> request_count + 1, expiry |-> t + RateTTL]

\* views.py 176-179, one transaction; an IntegrityError on unique_together
\* leaves it before the cache is written
SendCreate(w, c) ==
    IF Clashes(w.friendRequest, 0, c.user, c.target)
    THEN Finish(w, c, 500, "integrity")
    ELSE Finish([w EXCEPT
                    !.friendRequest = @ \cup
                        {[id |-> w.nextId, sender |-> c.user, receiver |-> c.target,
                          status |-> SavedStatus(c.status), updated_at |-> w.now]},
                    !.nextId = @ + 1,
                    !.requestCount[c.user] = CountEntry(w.now, c.request_count),
                    !.userActivity = Append(@, <<c.user, "Sent friend request", w.now>>)],
                [c EXCEPT !.saved = TRUE, !.pk = w.nextId],
                201, "created")

\* ---------------------------------- AcceptRejectFriendRequestView (PUT)
\* the body may carry `status` and `receiver` (both writable, partial=True)
RespondCall(caller, pk, st, receiver) ==
    [Idle EXCEPT !.pc = "r_get", !.op = "respond", !.user = caller, !.pk = pk,
                 !.status = st, !.target = receiver]

GetObject_AnyCaller(rows, caller, pk) == First({r \in rows : r.id = pk})

\* views.py 198-200: get_object() on FriendRequest.objects.filter(receiver=user)
GetObject(rows, caller, pk) ==
    First({r \in rows : r.id = pk /\ r.receiver = caller})

\* views.py 204
RespondGetObject(w, c) ==
    LET instance == GetObject(w.friendRequest, c.user, c.pk)
    IN  IF instance = NoRow
        THEN Finish(w, c, 404, "not found")
        ELSE Result(w, [c EXCEPT !.pc = "r_existing", !.instance = instance])

\* views.py 206-211: sender = self.request.user, receiver = instance.receiver
RespondExistingRequest(rows, caller, instance) ==
    First(Between(rows, caller, instance.receiver))

\* views.py 206-234: the pair lookup, the receiver test and the body's validation
RespondExisting(w, c) ==
    LET existing_request == RespondExistingRequest(w.friendRequest, c.user, c.instance)
    IN  IF existing_request # NoRow
        THEN Finish(w, c, 400, existing_request.status)
        ELSE IF c.instance.receiver # c.user
        THEN Finish(w, c, 403, "forbidden")
        ELSE IF c.status = NoStatus
        THEN Finish(w, c, 400, "status required")
        ELSE IF c.status = "REJECTED"
        THEN Goto(w, c, "r_cooldown")
        ELSE Goto(w, c, "r_update")

\* views.py 236-238
RespondCooldown(w, c) ==
    Goto([w EXCEPT !.cooldown[<<c.instance.sender, c.instance.receiver>>] =
                       w.now + CooldownTTL],
         c, "r_update")

\* ModelSerializer.update: every validated field is set on the instance
Updated(instance, st, receiver, t) ==
    [instance EXCEPT !.status = st,
                     !.receiver = IF receiver = NoReceiver THEN @ ELSE receiver,
                     !.updated_at = t]

\* views.py 240-241: instance.save() updates the row with this primary key, and
\* inserts it when no such row is left
RespondUpdate(w, c) ==
    LET instance == Updated(c.instance, c.status, c.target, w.now)
    IN  IF Clashes(w.friendRequest, instance.id, instance.sender, instance.receiver)
        THEN Finish(w, c, 500, "integrity")
        ELSE LET w2 == [w EXCEPT !.friendRequest =
                                     {r \in @ : r.id # instance.id} \cup {instance}]
                 c2 == [c EXCEPT !.saved = TRUE, !.instance = instance]
             IN  IF c.status = "ACCEPTED"
                 THEN Goto(w2, c2, "r_friend1")
                 ELSE Finish(w2, c2, 200, "updated")

\* Friendship.objects.create under unique_together = ('user', 'friend')
CreateFriendship(w, c, user, friend, next) ==
    IF <<user, friend>> \in w.friendship
    THEN Finish(w, c, 500, "integrity")
    ELSE Goto([w EXCEPT !.friendship = @ \cup {<<user, friend>>}], c, next)

\* views.py 245
RespondFriend1(w, c) ==
    CreateFriendship(w, c, c.instance.sender, c.instance.receiver, "r_friend2")

\* views.py 246
RespondFriend2(w, c) ==
    CreateFriendship(w, c, c.instance.receiver, c.instance.sender, "r_activity")

\* views.py 247-249
RespondActivity(w, c) ==
    Finish([w EXCEPT !.userActivity =
                         Append(@, <<c.user, "Accepted friend request", w.now>>)],
           c, 200, "updated")

\* ------------------------------------------ BlockUnblockUserView (POST)
BlockCall(caller, user_id) ==
    [Idle EXCEPT !.pc = "b_create", !.op = "block", !.user = caller, !.target = user_id]

\* views.py 307-315 and 328-329: BlockedUser.objects.get_or_create
BlockGetOrCreate(w, c) ==
    IF c.target = c.user
    THEN Finish(w, c, 400, "self")
    ELSE IF <<c.user, c.target>> \in w.blockedUser
    THEN Finish(w, c, 200, "already blocked")
    ELSE Goto([w EXCEPT !.blockedUser = @ \cup {<<c.user, c.target>>}],
              [c EXCEPT !.saved = TRUE], "b_requests")

BlockDeleteRequests_OneWay(w, c) ==
    Goto([w EXCEPT !.friendRequest =
              {r \in @ : ~(r.sender = c.user /\ r.receiver = c.target)}],
         c, "b_friendships")

\* views.py 319-322
BlockDeleteRequests(w, c) ==
    Goto([w EXCEPT !.friendRequest = @ \ Between(@, c.user, c.target)],
         c, "b_friendships")

\* Q(user=a, friend=b) | Q(user=b, friend=a)
FriendshipsBetween(rows, a, b) == rows \cap {<<a, b>>, <<b, a>>}

\* a block that takes the activity of the two users with it
BlockDeleteFriendships_Cascade(w, c) ==
    Finish([w EXCEPT !.friendship = @ \ FriendshipsBetween(@, c.user, c.target),
                     !.userActivity =
                         SelectSeq(@, LAMBDA e : e[1] \notin {c.user, c.target})],
           c, 201, "blocked")

\* views.py 323-327
BlockDeleteFriendships(w, c) ==
    Finish([w EXCEPT !.friendship = @ \ FriendshipsBetween(@, c.user, c.target)],
           c, 201, "blocked")

\* ---------------------------------------- BlockUnblockUserView (DELETE)
UnblockCall(caller, user_id) ==
    [Idle EXCEPT !.pc = "u_get", !.op = "unblock", !.user = caller, !.target = user_id]

\* views.py 332-341 and 344-345: BlockedUser.objects.get
UnblockGet(w, c) ==
    IF c.target = c.user
    THEN Finish(w, c, 400, "self")
    ELSE IF <<c.user, c.target>> \notin w.blockedUser
    THEN Finish(w, c, 400, "not blocked")
    ELSE Goto(w, c, "u_delete")

UnblockDelete_Keep(w, c) ==
    Finish(w, [c EXCEPT !.saved = TRUE], 200, "unblocked")

\* views.py 342-343: blocked_user.delete()
UnblockDelete(w, c) ==
    Finish([w EXCEPT !.blockedUser = @ \ {<<c.user, c.target>>}],
           [c EXCEPT !.saved = TRUE], 200, "unblocked")

\* ------------------------------------------------ FriendsListView (GET)
ListCall(caller) == [Idle EXCEPT !.pc = "l_get", !.op = "list", !.user = caller]

\* views.py 265-271: a key that is present is returned as it is, json.loads of
\* "[]" included (the bytes redis returns are not empty)
ListGet(w, c) ==
    LET cached_friends == w.friendsList[c.user]
    IN  IF Live(w, cached_friends.expiry)
        THEN Finish(w, [c EXCEPT !.friends = cached_friends.rows,
                                 !.queried_at = cached_friends.queried_at,
                                 !.written_at = cached_friends.written_at],
                    200, "cached")
        ELSE Goto(w, c, "l_query")

\* Friendship.objects.filter(user=user)
FriendsOf(rows, user) == {f \in rows : f[1] = user}

\* views.py 273-275: the queryset is evaluated when it is serialized
ListQuery(w, c) ==
    Goto(w, [c EXCEPT !.friends = FriendsOf(w.friendship, c.user),
                      !.queried_at = w.now],
         "l_set")

FriendsEntry_Long(t, rows, queried_at) ==
    [rows |-> rows, expiry |-> t + 2 * FriendsTTL, queried_at |-> queried_at,
     written_at |-> t]

\* redis_client.set(cache_key, friends_json, ex=300) at time t
FriendsEntry(t, rows, queried_at) ==
    [rows |-> rows, expiry |-> t + FriendsTTL, queried_at |-> queried_at, written_at |-> t]

\* views.py 276-277
ListSet(w, c) ==
    Finish([w EXCEPT !.friendsList[c.user] = FriendsEntry(w.now, c.friends, c.queried_at)],
           [c EXCEPT !.written_at = w.now], 200, "queried")

\* ------------------------------------------------------------- execution
\* the next statement of call c
Statement(w, c) ==
    CASE c.pc = "s_existing" -> SendExisting(w, c)
      [] c.pc = "s_cooldown" -> SendCooldown(w, c)
      [] c.pc = "s_blocked" -> SendBlocked(w, c)
      [] c.pc = "s_rate" -> SendRate(w, c)
      [] c.pc = "s_lookback" -> SendLookback(w, c)
      [] c.pc = "s_create" -> SendCreate(w, c)
      [] c.pc = "r_get" -> RespondGetObject(w, c)
      [] c.pc = "r_existing" -> RespondExisting(w, c)
      [] c.pc = "r_cooldown" -> RespondCooldown(w, c)
      [] c.pc = "r_update" -> RespondUpdate(w, c)
      [] c.pc = "r_friend1" -> RespondFriend1(w, c)
      [] c.pc = "r_friend2" -> RespondFriend2(w, c)
      [] c.pc = "r_activity" -> RespondActivity(w, c)
      [] c.pc = "b_create" -> BlockGetOrCreate(w, c)
      [] c.pc = "b_requests" -> BlockDeleteRequests(w, c)
      [] c.pc = "b_friendships" -> BlockDeleteFriendships(w, c)
      [] c.pc = "u_get" -> UnblockGet(w, c)
      [] c.pc = "u_delete" -> UnblockDelete(w, c)
      [] c.pc = "l_get" -> ListGet(w, c)
      [] c.pc = "l_query" -> ListQuery(w, c)
      [] c.pc = "l_set" -> ListSet(w, c)

\* the call run to its response
RECURSIVE Run(_, _)
Run(w, c) ==
    IF c.pc = "done" THEN Result(w, c)
    ELSE LET n == Statement(w, c) IN Run(n.w, n.c)

\* primary keys are handed out up to maxId
WithinBounds(w, maxId) == w.nextId <= maxId + 1

\* one call, from its arrival to its response, with no other call in between
Handle(c, maxId) ==
    LET r == Run(World, c)
    IN  /\ WithinBounds(r.w, maxId)
        /\ Install(r.w)
        /\ UNCHANGED <<friendsAt, calls, proc>>

\* the primary keys a respond may name: every row's, and one that names no row
Pks == {r.id : r \in friendRequest} \cup {nextId}

Send(sender, receiver, st) == Handle(SendCall(sender, receiver, st), MaxId)
Respond(caller, pk, st, receiver) == Handle(RespondCall(caller, pk, st, receiver), MaxId)
Block(caller, user_id) == Handle(BlockCall(caller, user_id), MaxId)
Unblock(caller, user_id) == Handle(UnblockCall(caller, user_id), MaxId)

Next ==
    \/ \E s \in Users, r \in Users, st \in StatusPayload : Send(s, r, st)
    \/ \E u \in Users, pk \in Pks, st \in StatusPayload, r \in ReceiverPayload :
           Respond(u, pk, st, r)
    \/ \E u \in Users, t \in Users : Block(u, t)
    \/ \E u \in Users, t \in Users : Unblock(u, t)
    \/ TickDay

Spec == Init /\ [][Next]_vars

\* ------------------------------------------------- the rate limit at work
\* sends, blocks and unblocks with the clock moving in short ticks; a sender
\* reaches the limit within MaxRateId rows
RateSend(sender, receiver, st) == Handle(SendCall(sender, receiver, st), MaxRateId)
RateBlock(caller, user_id) == Handle(BlockCall(caller, user_id), MaxRateId)
RateUnblock(caller, user_id) == Handle(UnblockCall(caller, user_id), MaxRateId)

RateNext ==
    \/ \E s \in Users, r \in Users, st \in StatusPayload : RateSend(s, r, st)
    \/ \E u \in Users, t \in Users : RateBlock(u, t)
    \/ \E u \in Users, t \in Users : RateUnblock(u, t)
    \/ TickSeconds

RateSpec == Init /\ [][RateNext]_vars

\* ------------------------------------------------- interleaved execution
Free(p) == proc[p].pc \in {"idle", "done"}

\* a call arrives and takes a free slot
Begin(p, c) ==
    /\ Free(p)
    /\ calls < MaxCalls
    /\ calls' = calls + 1
    /\ proc' = [proc EXCEPT ![p] = c]
    /\ UNCHANGED <<friendRequest, nextId, friendship, blockedUser, userActivity,
                   cooldown, requestCount, friendsList, friendsAt, now>>

\* the call in slot p executes its next statement
Advance1(p) ==
    /\ ~Free(p)
    /\ LET r == Statement(World, proc[p])
       IN  /\ WithinBounds(r.w, MaxId)
           /\ Install(r.w)
           /\ proc' = [proc EXCEPT ![p] = r.c]
    /\ UNCHANGED <<friendsAt, calls>>

\* the bodies the interleaved calls carry: a send names its receiver only, a
\* respond carries an answer
ConcNext ==
    \/ \E p \in Procs, s \in Users, r \in Users :
           Begin(p, SendCall(s, r, NoStatus))
    \/ \E p \in Procs, u \in Users, pk \in Pks, st \in {"ACCEPTED", "REJECTED"} :
           Begin(p, RespondCall(u, pk, st, NoReceiver))
    \/ \E p \in Procs, u \in Users, t \in Users : Begin(p, BlockCall(u, t))
    \/ \E p \in Procs, u \in Users, t \in Users : Begin(p, UnblockCall(u, t))
    \/ \E p \in Procs : Advance1(p)

ConcSpec == Init /\ [][ConcNext]_vars

\* ------------------------------------------------- every check of a send
\* sends that name a receiver only, answers ACCEPTED or REJECTED, blocks and
\* unblocks, served one at a time; a sender reaches the rate limit within
\* MaxRateId rows and the cooldown passes with a whole-day tick
OrderSend(sender, receiver) == Handle(SendCall(sender, receiver, NoStatus), MaxRateId)
OrderRespond(caller, pk, st) == Handle(RespondCall(caller, pk, st, NoReceiver), MaxRateId)
OrderBlock(caller, user_id) == Handle(BlockCall(caller, user_id), MaxRateId)
OrderUnblock(caller, user_id) == Handle(UnblockCall(caller, user_id), MaxRateId)

OrderNext ==
    \/ \E s \in Users, r \in Users : OrderSend(s, r)
    \/ \E u \in Users, pk \in Pks, st \in {"ACCEPTED", "REJECTED"} : OrderRespond(u, pk, st)
    \/ \E u \in Users, t \in Users : OrderBlock(u, t)
    \/ \E u \in Users, t \in Users : OrderUnblock(u, t)
    \/ TickDay

OrderSpec == Init /\ [][OrderNext]_vars

\* ------------------------------------------------- the friend list cache
\* friend lists run statement by statement while sends, accepts and blocks are
\* served and the clock moves; the Friendship rows of each user are recorded
\* each time they change
Remember(w) ==
    friendsAt' = [u \in Users |->
                    LET h == friendsAt[u]
                        rows == FriendsOf(w.friendship, u)
                    IN  IF rows = h[Len(h)].rows THEN h
                        ELSE Append(h, [t |-> w.now, rows |-> rows])]

Commit(c) ==
    LET r == Run(World, c)
    IN  /\ WithinBounds(r.w, MaxListId)
        /\ Install(r.w)
        /\ Remember(r.w)
        /\ UNCHANGED <<calls, proc>>

ListSend(sender, receiver) == Commit(SendCall(sender, receiver, NoStatus))
ListAccept(caller, pk) == Commit(RespondCall(caller, pk, "ACCEPTED", NoReceiver))
ListBlock(caller, user_id) == Commit(BlockCall(caller, user_id))

ListBegin(p, caller) ==
    /\ Free(p)
    /\ proc' = [proc EXCEPT ![p] = ListCall(caller)]
    /\ UNCHANGED <<friendRequest, nextId, friendship, blockedUser, userActivity,
                   cooldown, requestCount, friendsList, friendsAt, now, calls>>

ListStep(p) ==
    /\ ~Free(p)
    /\ LET r == Statement(World, proc[p])
       IN  /\ Install(r.w)
           /\ proc' = [proc EXCEPT ![p] = IF r.c.pc = "done" THEN Idle ELSE r.c]
    /\ UNCHANGED <<friendsAt, calls>>

ListTick ==
    /\ now + TickList <= MaxListSecs
    /\ now' = now + TickList
    /\ Evict(now + TickList)
    /\ friendsList' = [u \in Users |->
                         IF now + TickList < friendsList[u].expiry THEN friendsList[u]
                         ELSE NoEntry]
    /\ UNCHANGED <<friendRequest, nextId, friendship, blockedUser, userActivity,
                   friendsAt, calls, proc>>

ListNext ==
    \/ \E s \in Users, r \in Users : ListSend(s, r)
    \/ \E u \in Users, pk \in Pks : ListAccept(u, pk)
    \/ \E u \in Users, t \in Users : ListBlock(u, t)
    \/ \E p \in 1..MaxLists, u \in Users : ListBegin(p, u)
    \/ \E p \in 1..MaxLists : ListStep(p)
    \/ ListTick

ListSpec == Init /\ [][ListNext]_vars

\* ------------------------------------------------- sends racing each other
\* sends run statement by statement, any number of them one after another in
\* each slot; blocks and unblocks run alone; the clock stands still
RaceBegin(p, sender, receiver) ==
    /\ Free(p)
    /\ proc' = [proc EXCEPT ![p] = SendCall(sender, receiver, NoStatus)]
    /\ UNCHANGED <<friendRequest, nextId, friendship, blockedUser, userActivity,
                   cooldown, requestCount, friendsList, friendsAt, now, calls>>

RaceStep(p) ==
    /\ ~Free(p)
    /\ LET r == Statement(World, proc[p])
       IN  /\ WithinBounds(r.w, MaxRaceId)
           /\ Install(r.w)
           /\ proc' = [proc EXCEPT ![p] = IF r.c.pc = "done" THEN Idle ELSE r.c]
    /\ UNCHANGED <<friendsAt, calls>>

RaceBlock(caller, user_id) == Handle(BlockCall(caller, user_id), MaxRaceId)
RaceUnblock(caller, user_id) == Handle(UnblockCall(caller, user_id), MaxRaceId)

RaceNext ==
    \/ \E p \in Procs, s \in Users, r \in Users : RaceBegin(p, s, r)
    \/ \E p \in Procs : RaceStep(p)
    \/ \E u \in Users, t \in Users : RaceBlock(u, t)
    \/ \E u \in Users, t \in Users : RaceUnblock(u, t)

RaceSpec == Init /\ [][RaceNext]_vars

\* ------------------------------------------------- properties
\* the outcome, in the current state, of a call run to completion
Outcome(c) == Run(World, c)

\* C1: at most one FriendRequest row exists for any unordered pair of users,
\* in every state, also when sends for the pair run at the same time
C1_OneRequestPerPair ==
    \A a \in Users, b \in Users :
        Cardinality(Between(friendRequest, a, b)) <= 1

\* C2: a Friendship row (a, b) exists exactly when the row (b, a) exists, in
\* every state another call can observe
C2_FriendshipSymmetric ==
    \A a \in Users, b \in Users :
        (<<a, b>> \in friendship) <=> (<<b, a>> \in friendship)

\* C3: when a block call newly creates the row BlockedUser(a, b), then in the
\* state the call completes in no FriendRequest row and no Friendship row
\* exists between a and b, whatever rows existed before
C3_BlockCascade ==
    [][\A a \in Users, b \in Users :
           (<<a, b>> \notin blockedUser /\ <<a, b>> \in blockedUser')
               => /\ Between(friendRequest', a, b) = {}
                  /\ FriendshipsBetween(friendship', a, b) = {}]_vars

\* a request row and both friendship rows stand between two users, and a block
\* by one of them creates the block row and leaves none of those rows
C3_Witness ==
    \E a \in Users, b \in Users :
        /\ a # b
        /\ <<a, b>> \notin blockedUser
        /\ Between(friendRequest, a, b) # {}
        /\ FriendshipsBetween(friendship, a, b) = {<<a, b>>, <<b, a>>}
        /\ LET o == Outcome(BlockCall(a, b))
           IN  /\ o.c.response.http = 201
               /\ <<a, b>> \in o.w.blockedUser
               /\ Between(o.w.friendRequest, a, b) = {}
               /\ FriendshipsBetween(o.w.friendship, a, b) = {}

\* C4: while the row BlockedUser(a, b) exists, a send from a to b and a send
\* from b to a are both rejected and neither creates a FriendRequest row
C4_BlockedPairCannotSend ==
    \A a \in Users, b \in Users, st \in StatusPayload :
        <<a, b>> \in blockedUser
            => /\ ~Outcome(SendCall(a, b, st)).c.saved
               /\ ~Outcome(SendCall(b, a, st)).c.saved

\* C5: in every state, if the row BlockedUser(a, b) exists then neither the
\* Friendship row (a, b) nor the Friendship row (b, a) exists
C5_NoFriendshipAcrossBlock ==
    \A a \in Users, b \in Users :
        <<a, b>> \in blockedUser => FriendshipsBetween(friendship, a, b) = {}

\* the world d seconds later, nothing else having happened
At(w, d) == [w EXCEPT !.now = @ + d]

\* the row a REJECTED answer left behind, its cooldown marker still set by
\* that answer
JustRejected(r) ==
    /\ r.status = "REJECTED"
    /\ r.sender # r.receiver
    /\ cooldown[<<r.sender, r.receiver>>] = r.updated_at + CooldownTTL

\* C6: after the receiver answers REJECTED to a request from a to b, a send
\* from a to b is rejected while less than 24 hours have passed; once 24 hours
\* have passed, with no block between them and a under the rate limit, the
\* send creates a new PENDING request
C6_CooldownThenRetry ==
    \A r \in friendRequest :
        JustRejected(r) =>
            /\ \A d \in {0, CooldownTTL - 1} :
                   now + d < r.updated_at + CooldownTTL
                       => ~Run(At(World, d), SendCall(r.sender, r.receiver, NoStatus)).c.saved
            /\ LET later == At(World, r.updated_at + CooldownTTL - now)
                   o == Run(later, SendCall(r.sender, r.receiver, NoStatus))
               IN  (/\ FriendshipsBetween(blockedUser, r.sender, r.receiver) = {}
                    /\ ~OverRate(CacheGetCount(later, r.sender)))
                       => /\ o.c.saved
                          /\ \E q \in o.w.friendRequest \ friendRequest :
                                 /\ q.sender = r.sender /\ q.receiver = r.receiver
                                 /\ q.status = "PENDING"

\* the successful sends of user s in the activity log
SentBy(s) ==
    {i \in DOMAIN userActivity :
        userActivity[i][1] = s /\ userActivity[i][2] = "Sent friend request"}

\* three successful sends by s, the first of them less than 60 seconds ago
ThreeSentInWindow(s) ==
    \E i \in SentBy(s), j \in SentBy(s), k \in SentBy(s) :
        i < j /\ j < k /\ now - userActivity[i][3] < RateTTL

\* C7: with calls made one after another, after three successful sends by a
\* user a fourth send within 60 seconds of the first is rejected and creates
\* no row; a send made after the rate counter has expired is not rejected by
\* the rate limit
C7_RateLimit ==
    \A s \in Users, r \in Users, st \in StatusPayload :
        LET o == Outcome(SendCall(s, r, st))
        IN  /\ ThreeSentInWindow(s)
                => ~o.c.saved /\ o.w.friendRequest = friendRequest
            /\ (\A i \in SentBy(s) : now - userActivity[i][3] >= RateTTL)
                => o.c.response.detail # "rate"

\* three sends by s inside the window, and a fourth that nothing but the rate
\* limit stops
C7_Witness ==
    \E s \in Users, r \in Users :
        /\ ThreeSentInWindow(s)
        /\ Between(friendRequest, s, r) = {}
        /\ ~CacheGetCooldown(World, s, r)
        /\ ~ReceiverBlockedSender(blockedUser, s, r)
        /\ Outcome(SendCall(s, r, NoStatus)).c.response = [http |-> 500, detail |-> "rate"]

\* C8: the status of a FriendRequest row changes only from PENDING to ACCEPTED
\* or from PENDING to REJECTED; a row that is ACCEPTED or REJECTED never
\* changes status again
C8_StatusLifecycle ==
    [][\A r \in friendRequest, q \in friendRequest' :
           (r.id = q.id /\ r.status # q.status)
               => r.status = "PENDING" /\ q.status \in {"ACCEPTED", "REJECTED"}]_vars

\* C9: every FriendRequest row a send inserts has status PENDING, whatever
\* fields the request body carries
C9_InsertedPending ==
    \A s \in Users, r \in Users, st \in StatusPayload :
        LET o == Outcome(SendCall(s, r, st))
        IN  \A q \in o.w.friendRequest \ friendRequest : q.status = "PENDING"

\* C10: a send whose sender equals its receiver is rejected, and no
\* FriendRequest row with sender equal to receiver exists in any state
C10_NoSelfRequest ==
    \A r \in friendRequest : r.sender # r.receiver

\* C11: a respond by a caller who is not the receiver of the addressed request
\* is answered NotFound or Forbidden and leaves the FriendRequest rows, the
\* Friendship rows, the cooldown markers and the activity log unchanged
C11_OnlyReceiverResponds ==
    \A r \in friendRequest, caller \in Users,
       st \in StatusPayload, rcv \in ReceiverPayload :
        caller # r.receiver
            => LET o == Outcome(RespondCall(caller, r.id, st, rcv))
               IN  /\ o.c.response.http \in {403, 404}
                   /\ o.w.friendRequest = friendRequest
                   /\ o.w.friendship = friendship
                   /\ o.w.cooldown = cooldown
                   /\ o.w.userActivity = userActivity

\* the sender of a pending request tries to accept it and is answered 404
C11_Witness ==
    \E r \in friendRequest :
        /\ r.status = "PENDING"
        /\ r.sender # r.receiver
        /\ LET o == Outcome(RespondCall(r.sender, r.id, "ACCEPTED", NoReceiver))
           IN  o.c.response.http = 404 /\ o.w = World

\* the answer to "User is not blocked."
NotBlocked == [http |-> 400, detail |-> "not blocked"]

\* C12: an unblock of a user who is not blocked answers NotBlocked and changes
\* no state; an unblock of a blocked user answers Unblocked and removes only
\* that BlockedUser row, restoring no FriendRequest or Friendship row; the
\* same unblock made again right after answers NotBlocked
C12_IdempotentUnblock ==
    \A a \in Users, b \in Users :
        a # b =>
            LET o == Outcome(UnblockCall(a, b))
                again == Run(o.w, UnblockCall(a, b))
            IN  IF <<a, b>> \notin blockedUser
                THEN o.c.response = NotBlocked /\ o.w = World
                ELSE /\ o.c.response = [http |-> 200, detail |-> "unblocked"]
                     /\ o.w = [World EXCEPT !.blockedUser = @ \ {<<a, b>>}]
                     /\ again.c.response = NotBlocked
                     /\ again.w = o.w

\* a blocks b after a request between them was sent, and unblocks twice
C12_Witness ==
    \E a \in Users, b \in Users :
        /\ <<a, b>> \in blockedUser
        /\ Len(userActivity) > 0
        /\ Between(friendRequest, a, b) = {}
        /\ LET o == Outcome(UnblockCall(a, b))
           IN  /\ o.c.response.http = 200
               /\ <<a, b>> \notin o.w.blockedUser
               /\ Between(o.w.friendRequest, a, b) = {}
               /\ Run(o.w, UnblockCall(a, b)).c.response = NotBlocked

\* a business rule stands against a send from s to r
Refused(s, r) ==
    \/ Between(friendRequest, s, r) # {}
    \/ CacheGetCooldown(World, s, r)
    \/ ReceiverBlockedSender(blockedUser, s, r)
    \/ OverRate(CacheGetCount(World, s))

\* C13: every send refused by a business rule (an existing row between the
\* pair, the cooldown marker, the receiver having blocked the sender, the rate
\* limit) is answered with a rejection (400), distinct from success (200/201)
\* and from a server error
C13_RefusalIsRejection ==
    \A s \in Users, r \in Users, st \in StatusPayload :
        Refused(s, r) => Outcome(SendCall(s, r, st)).c.response.http = 400

\* the status the row with primary key pk has in rows
StatusOf(rows, pk) == First({q \in rows : q.id = pk}).status

\* C14: an accept by the receiver either commits the status update, both
\* Friendship rows and the "Accepted friend request" activity entry together,
\* or, when one of these writes fails, commits none of them and leaves the
\* status of the FriendRequest row as it was
C14_AcceptAllOrNothing ==
    \A r \in friendRequest :
        LET o == Outcome(RespondCall(r.receiver, r.id, "ACCEPTED", NoReceiver))
        IN  \/ /\ o.c.response.http = 200
               /\ StatusOf(o.w.friendRequest, r.id) = "ACCEPTED"
               /\ {<<r.sender, r.receiver>>, <<r.receiver, r.sender>>} \subseteq o.w.friendship
               /\ o.w.userActivity =
                      Append(userActivity, <<r.receiver, "Accepted friend request", now>>)
            \/ /\ o.c.response.http # 200
               /\ StatusOf(o.w.friendRequest, r.id) = r.status
               /\ o.w.friendship = friendship
               /\ o.w.userActivity = userActivity

\* the world with only the FriendRequest rows between a and b
OnlyBetween(w, a, b) == [w EXCEPT !.friendRequest = Between(@, a, b)]

\* C16: whether the duplicate-pair check rejects a respond depends only on the
\* FriendRequest rows between the sender and the receiver of the addressed
\* request: rows of any other pair, a row from the caller to the caller
\* included, never change the answer to a respond on a PENDING request
C16_RespondDuplicatePair ==
    \A r \in friendRequest, st \in {"ACCEPTED", "REJECTED"} :
        (r.status = "PENDING" /\ r.sender # r.receiver)
            => LET c == RespondCall(r.receiver, r.id, st, NoReceiver)
               IN  Outcome(c).c.response
                       = Run(OnlyBetween(World, r.sender, r.receiver), c).c.response

\* C17: a respond changes only the status and updated_at of the addressed
\* FriendRequest: no row's sender or receiver ever changes, whatever fields
\* the caller supplies, and the Friendship rows an accept creates connect the
\* sender and the receiver the request had before the call
C17_RespondFrame ==
    [][/\ \A r \in friendRequest, q \in friendRequest' :
              r.id = q.id => (q.sender = r.sender /\ q.receiver = r.receiver)
       /\ \A f \in friendship' \ friendship :
              \E r \in friendRequest :
                  f \in {<<r.sender, r.receiver>>, <<r.receiver, r.sender>>}]_vars

\* the time of the first counted send of the window that the i-th successful
\* send of s falls in, when a window closes 60 seconds after its first send;
\* start is the first send of the window entry i - 1 falls in (-1: none yet)
RECURSIVE WindowStart(_, _, _)
WindowStart(s, i, start) ==
    IF i > Len(userActivity) THEN start
    ELSE LET t == userActivity[i][3]
         IN  IF i \notin SentBy(s) THEN WindowStart(s, i + 1, start)
             ELSE IF start < 0 \/ t >= start + RateTTL
                  THEN WindowStart(s, i + 1, t)
                  ELSE WindowStart(s, i + 1, start)

\* C18: the rate counter of a sender is reset 60 seconds after its first
\* increment: once 60 seconds have passed since the first counted send of a
\* window, the sender's next send is not rejected by the rate limit, however
\* many further successful sends were made later inside that window
C18_CounterReset ==
    \A s \in Users, r \in Users, st \in StatusPayload :
        LET start == WindowStart(s, 1, -1)
        IN  (start >= 0 /\ now >= start + RateTTL)
                => Outcome(SendCall(s, r, st)).c.response.detail # "rate"

\* C19: for any sender, at most 3 sends succeed (insert a FriendRequest row)
\* while one rate-counter entry of that sender is live, also when sends by the
\* sender run at the same time with counter read and counter write interleaved
C19_RateLimitConcurrent ==
    \A s \in Users :
        LET n == Cardinality({i \in SentBy(s) : now - userActivity[i][3] < RateTTL})
        IN  /\ n <= RateLimit
            /\ n = RateLimit
                   => \A r \in Users : ~Outcome(SendCall(s, r, NoStatus)).c.saved

\* what the first failing check of a send from s to r reports, the checks
\* taken in the order: existing row, cooldown, block, rate limit, lookback
FirstFailing(s, r) ==
    IF Between(friendRequest, s, r) # {}
    THEN First(Between(friendRequest, s, r)).status
    ELSE IF CacheGetCooldown(World, s, r) THEN "cooldown"
    ELSE IF ReceiverBlockedSender(blockedUser, s, r) THEN "blocked"
    ELSE IF OverRate(CacheGetCount(World, s)) THEN "rate"
    ELSE IF LastRejected(World, s, r) # NoRow THEN "lookback"
    ELSE "created"

\* C20: a send evaluates its checks in a fixed order and the first failing
\* check determines the outcome: existing row between the pair, then the
\* cooldown marker, then receiver-has-blocked-sender, then the rate limit,
\* then the 24-hour REJECTED lookback
C20_CheckOrder ==
    \A s \in Users, r \in Users :
        LET o == Outcome(SendCall(s, r, NoStatus))
        IN  /\ o.c.response.detail = FirstFailing(s, r)
            /\ o.c.saved <=> FirstFailing(s, r) = "created"

\* the cooldown marker is set and the receiver has also blocked the sender:
\* the send reports the cooldown
C20_Witness ==
    \E s \in Users, r \in Users :
        /\ Between(friendRequest, s, r) = {}
        /\ CacheGetCooldown(World, s, r)
        /\ ReceiverBlockedSender(blockedUser, s, r)
        /\ Outcome(SendCall(s, r, NoStatus)).c.response.detail = "cooldown"

\* the sets of Friendship rows user u had at some instant from `from` to `to`
SeenBetween(u, from, to) ==
    LET h == friendsAt[u]
    IN  {h[i].rows : i \in {i \in DOMAIN h :
                              h[i].t <= to /\ (i = Len(h) \/ h[i + 1].t >= from)}}

\* the friend list calls whose next statement returns, as they return
Returning ==
    {c \in {Statement(World, proc[p]).c :
                p \in {p \in Procs : proc[p].op = "list" /\ ~Free(p)}} :
        c.pc = "done"}

\* C15: whenever a friend list returns, the returned set equals the set of
\* Friendship rows of that user as it was in the store at some instant no more
\* than 5 minutes earlier, under any interleaving with accepts and blocks
C15_StalenessBounded ==
    \A c \in Returning : c.friends \in SeenBetween(c.user, now - FriendsTTL, now)

\* C15 as the code has it: whenever a friend list returns, the returned set
\* equals the Friendship rows of that user as they were when a friend list call
\* (this one, or the one that filled the cache) queried them, and the cache key
\* it came from was written less than 5 minutes ago; the staleness is below
\* 5 minutes plus the time that call took from its query to its cache write
C15_StalenessFromWrite ==
    \A c \in Returning :
        /\ c.friends \in SeenBetween(c.user, c.queried_at, c.queried_at)
        /\ c.queried_at <= c.written_at
        /\ now - c.written_at < FriendsTTL
        /\ now - c.queried_at < FriendsTTL + (c.written_at - c.queried_at)

\* a friend list returns from the cache rows that were queried more than
\* 5 minutes ago and that the store no longer has
C15_Witness ==
    \E c \in Returning :
        /\ c.response.detail = "cached"
        /\ c.friends # FriendsOf(friendship, c.user)
        /\ now - c.queried_at > FriendsTTL


\* C21: a send that one of its checks refuses (existing row, cooldown marker,
\* receiver-has-blocked-sender, rate limit, REJECTED lookback) leaves all state
\* unchanged: no FriendRequest row inserted or modified, the sender's rate
\* counter neither incremented nor re-armed, no cooldown marker set, no
\* activity entry appended
C21_RefusedSendChangesNothing ==
    \A s \in Users, r \in Users, st \in StatusPayload :
        FirstFailing(s, r) # "created"
            => LET o == Outcome(SendCall(s, r, st))
               IN  /\ ~o.c.saved
                   /\ o.w.friendRequest = friendRequest
                   /\ o.w.requestCount = requestCount
                   /\ o.w.cooldown = cooldown
                   /\ o.w.userActivity = userActivity
                   /\ o.w = World

\* the sender's counter is live at the limit after three sends, and the rate
\* limit refuses a further send, which changes nothing
C21_Witness ==
    \E s \in Users, r \in Users :
        /\ FirstFailing(s, r) = "rate"
        /\ requestCount[s].count = RateLimit
        /\ now < requestCount[s].expiry
        /\ Len(userActivity) >= RateLimit
        /\ LET o == Outcome(SendCall(s, r, NoStatus))
           IN  o.c.response.http = 500 /\ o.w = World


\* the activity log a call leaves, given the entries it is to append
Logged(o, entries) == o.w.userActivity = userActivity \o entries

\* C22: the activity log is append-only and tracks exactly the successful
\* transitions: no call removes or alters an entry (a block and its cascade
\* included); a send that inserts its row appends exactly one "Sent friend
\* request" entry for the sender; a respond ACCEPTED that succeeds appends
\* exactly one "Accepted friend request" entry for the receiver; a respond
\* REJECTED, a block, an unblock and every refused call append nothing
C22_ActivityLog ==
    /\ \A s \in Users, r \in Users, st \in StatusPayload :
           LET o == Outcome(SendCall(s, r, st))
           IN  IF o.w.friendRequest # friendRequest
               THEN Logged(o, <<<<s, "Sent friend request", now>>>>)
               ELSE Logged(o, <<>>)
    /\ \A u \in Users, pk \in Pks, st \in StatusPayload, rcv \in ReceiverPayload :
           LET o == Outcome(RespondCall(u, pk, st, rcv))
           IN  IF o.c.response.http = 200 /\ st = "ACCEPTED"
               THEN /\ Logged(o, <<<<u, "Accepted friend request", now>>>>)
                    /\ \E q \in friendRequest : q.id = pk /\ q.receiver = u
               ELSE Logged(o, <<>>)
    /\ \A u \in Users, t \in Users :
           /\ Logged(Outcome(BlockCall(u, t)), <<>>)
           /\ Logged(Outcome(UnblockCall(u, t)), <<>>)

\* the log holds a send and an accept of two friends; a block between them
\* deletes their request and both Friendship rows and leaves the log as it is
C22_Witness ==
    \E a \in Users, b \in Users :
        /\ \E i \in DOMAIN userActivity, j \in DOMAIN userActivity :
               /\ i < j
               /\ userActivity[i][1] = b /\ userActivity[i][2] = "Sent friend request"
               /\ userActivity[j][1] = a /\ userActivity[j][2] = "Accepted friend request"
        /\ Between(friendRequest, a, b) # {}
        /\ FriendshipsBetween(friendship, a, b) = {<<a, b>>, <<b, a>>}
        /\ LET o == Outcome(BlockCall(a, b))
           IN  /\ o.c.response.http = 201
               /\ Between(o.w.friendRequest, a, b) = {}
               /\ o.w.friendship # friendship
               /\ o.w.userActivity = userActivity


\* C23: with calls made one after another, Friendship rows and request status
\* agree in every state: for two users a and b the Friendship rows (a, b) and
\* (b, a) exist exactly when a FriendRequest row between a and b, in either
\* direction, has status ACCEPTED
C23_FriendshipMatchesStatus ==
    \A a \in Users, b \in Users :
        a # b =>
            ({<<a, b>>, <<b, a>>} \subseteq friendship
                <=> \E r \in Between(friendRequest, a, b) : r.status = "ACCEPTED")


\* a block of s by r is under way in some slot
Blocking(r, s) ==
    \E p \in Procs :
        /\ ~Free(p)
        /\ proc[p].op = "block" /\ proc[p].user = r /\ proc[p].target = s

\* C24: in every state, also when a send from s to r runs at the same time as
\* a block of s by r with their statements interleaved, no FriendRequest row
\* with sender s and receiver r exists once the block has completed and while
\* the row BlockedUser(r, s) exists
C24_BlockVersusSend ==
    \A s \in Users, r \in Users :
        (<<r, s>> \in blockedUser /\ ~Blocking(r, s))
            => \A q \in friendRequest : ~(q.sender = s /\ q.receiver = r)

=============================================================================
